---- MODULE Spec2Model ----
(***************************************************************************)
(* A model of the Conversimple platform API client: the process-wide       *)
(* Config class, the HTTPClient transport (request building, error         *)
(* mapping), and the Agent / Deployment / ApiKey endpoint wrappers.        *)
(*                                                                         *)
(* Python values are tagged records (None, Str, Num, Bool, Dict, List).    *)
(* A Python string is a sequence of tokens; a token is either the          *)
(* character "/" or a run of characters that holds no "/", so that         *)
(* rstrip("/") and concatenation act on it as they do on the real string.  *)
(***************************************************************************)
EXTENDS Integers, Sequences, FiniteSets, TLC

VARIABLES
    env,        \* os.environ as read when conversimple.config is imported
    Config,     \* the class attributes of Config
    overrides,  \* history: the keys Config.update was called with, with their last values
    client,     \* the HTTPClient instance (NoClient before construction)
    ctor,       \* history: the arguments the client was constructed with
    call,       \* the last operation invoked: arguments, request sent, response, outcome, log
    held        \* what the caller kept from an earlier call: a model instance, or
                \* the key a rotation returned (None: nothing)

vars == <<env, Config, overrides, client, ctor, call, held>>

----------------------------------------------------------------------------
(* Python values *)

None == [t |-> "None"]
Str(s) == [t |-> "str", s |-> s]
Num(n) == [t |-> "int", n |-> n]
Bool(b) == [t |-> "bool", b |-> b]
Dict(d) == [t |-> "dict", d |-> d]
List(l) == [t |-> "list", l |-> l]

EmptyMap == [k \in {} |-> None]

\* d[k] = v on a Python dict
Put(d, k, v) == [x \in DOMAIN d \cup {k} |-> IF x = k THEN v ELSE d[x]]

\* bool(v): None, "", 0, False, {} and [] are falsy
Truthy(v) ==
    CASE v.t = "None" -> FALSE
      [] v.t = "str"  -> v.s # <<>>
      [] v.t = "int"  -> v.n # 0
      [] v.t = "bool" -> v.b
      [] v.t = "dict" -> DOMAIN v.d # {}
      [] v.t = "list" -> v.l # <<>>

\* a or b
Or(a, b) == IF Truthy(a) THEN a ELSE b

\* rstrip dropping one trailing ch at most
rstrip_Once(s, ch) ==
    IF s # <<>> /\ s[Len(s)] = ch THEN SubSeq(s, 1, Len(s) - 1) ELSE s

\* str.rstrip(ch): drop every trailing ch
RECURSIVE rstrip(_, _)
rstrip(s, ch) ==
    IF s # <<>> /\ s[Len(s)] = ch
    THEN rstrip(SubSeq(s, 1, Len(s) - 1), ch)
    ELSE s

\* the keyword arguments a caller may pass: every partial choice from S,
\* a function from parameter names to the sets of values tried for each
Kwargs(S) ==
    UNION { { f \in [D -> UNION { S[k] : k \in D }] : \A k \in D : f[k] \in S[k] }
            : D \in SUBSET DOMAIN S }

\* the value a parameter takes: the one passed, or the default of the def line
Arg(kw, name, default) == IF name \in DOMAIN kw THEN kw[name] ELSE default

\* what an operation did: it returned v, or raised exception e
Return(v) == [kind |-> "return", value |-> v]
Raise(e) == [kind |-> "raise", exc |-> e]

----------------------------------------------------------------------------
(* conversimple.config *)

DefaultEndpoint == <<"https:", "/", "/", "api.conversimple.com">>
DefaultTimeoutText == <<"3", "0">>

DigitValue(c) ==
    CASE c = "0" -> 0 [] c = "1" -> 1 [] c = "2" -> 2 [] c = "3" -> 3 [] c = "4" -> 4
      [] c = "5" -> 5 [] c = "6" -> 6 [] c = "7" -> 7 [] c = "8" -> 8 [] c = "9" -> 9

\* int(s) for a string of decimal digits
RECURSIVE ParseInt(_)
ParseInt(s) ==
    IF s = <<>> THEN 0
    ELSE 10 * ParseInt(SubSeq(s, 1, Len(s) - 1)) + DigitValue(s[Len(s)])

\* str.lower() on the words the VERBOSE variable is given
LowerToken(c) ==
    CASE c = "TRUE" -> "true" [] c = "True" -> "true" [] c = "YES" -> "yes"
      [] OTHER -> c

Lower(s) == [i \in 1..Len(s) |-> LowerToken(s[i])]

\* os.getenv(name, default)
getenv(e, name, default) == IF name \in DOMAIN e THEN Str(e[name]) ELSE default

\* a classmethod of Config, which is an attribute of the class like the settings
ClassMethod(name) == [t |-> "classmethod", name |-> name]

\* the class body of Config, evaluated once at import under environment e
ConfigClass(e) ==
    [ API_ENDPOINT |-> getenv(e, "CONVERSIMPLE_API_ENDPOINT", Str(DefaultEndpoint)),
      API_KEY      |-> getenv(e, "CONVERSIMPLE_API_KEY", None),
      LOG_LEVEL    |-> getenv(e, "CONVERSIMPLE_LOG_LEVEL", Str(<<"INFO">>)),
      API_TIMEOUT  |-> Num(ParseInt(getenv(e, "CONVERSIMPLE_API_TIMEOUT",
                                           Str(DefaultTimeoutText)).s)),
      VERBOSE      |-> Bool(Lower(getenv(e, "CONVERSIMPLE_VERBOSE", Str(<<>>)).s)
                            \in {<<"true">>, <<"1">>, <<"yes">>}),
      update           |-> ClassMethod("update"),
      get_api_endpoint |-> ClassMethod("get_api_endpoint"),
      get_platform_url |-> ClassMethod("get_platform_url") ]

\* Config.update without the hasattr test: every key is set
ConfigUpdateResult_SettingEveryKey(cfg, kwargs) ==
    [ a \in DOMAIN cfg \cup DOMAIN kwargs |-> IF a \in DOMAIN kwargs THEN kwargs[a] ELSE cfg[a] ]

\* Config.update(**kwargs): setattr for every key that is already an attribute
ConfigUpdateResult(cfg, kwargs) ==
    [ a \in DOMAIN cfg |-> IF a \in DOMAIN kwargs THEN kwargs[a] ELSE cfg[a] ]

----------------------------------------------------------------------------
(* conversimple.api.client: HTTPClient *)

NoClient == [constructed |-> FALSE]

\* HTTPClient.__init__ choosing the timeout by "timeout or Config.API_TIMEOUT"
HTTPClientInit_TimeoutOr(api_key, kw, cfg) ==
    LET api_endpoint == Arg(kw, "api_endpoint", None)
        timeout      == Arg(kw, "timeout", None)
        verbose      == Arg(kw, "verbose", None)
    IN  [ constructed  |-> TRUE,
          api_key      |-> api_key,
          api_endpoint |-> Str(rstrip(Or(api_endpoint, cfg.API_ENDPOINT).s, "/")),
          timeout      |-> Or(timeout, cfg.API_TIMEOUT),
          verbose      |-> IF verbose # None THEN verbose ELSE cfg.VERBOSE ]

\* HTTPClient.__init__(api_key, api_endpoint=None, timeout=None, verbose=None)
HTTPClientInit(api_key, kw, cfg) ==
    LET api_endpoint == Arg(kw, "api_endpoint", None)
        timeout      == Arg(kw, "timeout", None)
        verbose      == Arg(kw, "verbose", None)
    IN  [ constructed  |-> TRUE,
          api_key      |-> api_key,
          api_endpoint |-> Str(rstrip(Or(api_endpoint, cfg.API_ENDPOINT).s, "/")),
          timeout      |-> IF timeout # None THEN timeout ELSE cfg.API_TIMEOUT,
          verbose      |-> IF verbose # None THEN verbose ELSE cfg.VERBOSE ]

\* _get_headers without the Authorization header
GetHeaders_NoAuth(c) ==
    [ ContentType |-> Str(<<"application/json">>),
      UserAgent   |-> Str(<<"conversimple-sdk/0.3.0">>) ]

\* HTTPClient._get_headers
GetHeaders(c) ==
    [ Authorization |-> Str(<<"Bearer ">> \o c.api_key.s),
      ContentType   |-> Str(<<"application/json">>),
      UserAgent     |-> Str(<<"conversimple-sdk/0.3.0">>) ]

(* Exceptions: conversimple.api.exceptions *)

\* APIError.__init__
APIError(class, message, status_code, response_data) ==
    [ class         |-> class,
      message       |-> message,
      status_code   |-> status_code,
      response_data |-> Or(response_data, Dict(EmptyMap)) ]

\* ValidationError.__init__ leaving the errors mapping empty
ValidationError_NoErrors(message, status_code, response_data) ==
    [ class         |-> "ValidationError",
      message       |-> message,
      status_code   |-> status_code,
      response_data |-> Or(response_data, Dict(EmptyMap)),
      errors        |-> Dict(EmptyMap) ]

\* ValidationError.__init__: the base fields plus the field -> message mapping
ValidationError(message, status_code, response_data) ==
    [ class         |-> "ValidationError",
      message       |-> message,
      status_code   |-> status_code,
      response_data |-> Or(response_data, Dict(EmptyMap)),
      errors        |-> IF Truthy(response_data) /\ "errors" \in DOMAIN response_data.d
                        THEN response_data.d.errors
                        ELSE Dict(EmptyMap) ]

\* an exception that is not of the APIError taxonomy (a Python built-in, or one
\* raised by a library), known by its class alone
Builtin(class) == [class |-> class]

Taxonomy == {"APIError", "ValidationError", "NotFoundError", "UnauthorizedError",
             "ForbiddenError"}

(* HTTP responses.  A body is either text that is not JSON (the empty body
   included) or the JSON encoding of a Python value. *)
TextBody(s) == [json |-> FALSE, text |-> s]
JsonBody(v) == [json |-> TRUE, value |-> v]

\* httpx's reason phrase of a status code
ReasonPhrase(status_code) == Str(<<"reason phrase of ", ToString(status_code)>>)

\* response.json(): the decoded value, or json.JSONDecodeError
ResponseJson(response) ==
    IF response.body.json
    THEN Return(response.body.value)
    ELSE Raise(Builtin("JSONDecodeError"))

\* HTTPClient._handle_error: the exception it raises for response
HandleError(response) ==
    LET decoded == ResponseJson(response)
        data == IF decoded.kind = "return"
                THEN decoded.value
                ELSE Dict([message |-> Str(response.body.text)])
    IN  IF data.t # "dict"
        THEN \* data.get on a list, a string, a number or None
             Builtin("AttributeError")
        ELSE LET error_message ==
                     IF "message" \in DOMAIN data.d
                     THEN data.d.message
                     ELSE ReasonPhrase(response.status_code)
             IN  CASE response.status_code = 422 ->
                        ValidationError(error_message, response.status_code, data)
                   [] response.status_code = 404 ->
                        APIError("NotFoundError", error_message, response.status_code, data)
                   [] response.status_code = 401 ->
                        APIError("UnauthorizedError", error_message, response.status_code, data)
                   [] response.status_code = 403 ->
                        APIError("ForbiddenError", error_message, response.status_code, data)
                   [] OTHER ->
                        APIError("APIError", error_message, response.status_code, data)

\* what a transport method did: the requests it sent, the responses they got,
\* the debug records it logged, and what it returned or raised
Done(sent, got, log, outcome) ==
    [sent |-> sent, got |-> got, log |-> log, outcome |-> outcome]

\* Send reading the endpoint and the timeout from Config when the request is
\* made, in place of the values the client took at construction
Send_ReadingConfig(c, method, path, what, payload, response) ==
    LET url == Str(rstrip(Config.API_ENDPOINT.s, "/") \o path)
        request == [ method |-> method, url |-> url, headers |-> GetHeaders(c),
                     what |-> what, payload |-> payload, timeout |-> Config.API_TIMEOUT ]
        log == IF Truthy(c.verbose)
               THEN << [ level |-> "DEBUG", method |-> method, url |-> url,
                         what |-> what, payload |-> payload ] >>
               ELSE << >>
    IN  Done(<<request>>, <<response>>, log,
             IF response.status_code >= 400
             THEN Raise(HandleError(response))
             ELSE ResponseJson(response))

\* Send logging the headers with the request
Send_LoggingHeaders(c, method, path, what, payload, response) ==
    LET url == Str(c.api_endpoint.s \o path)
        request == [ method |-> method, url |-> url, headers |-> GetHeaders(c),
                     what |-> what, payload |-> payload, timeout |-> c.timeout ]
        log == IF Truthy(c.verbose)
               THEN << [ level |-> "DEBUG", method |-> method, url |-> url,
                         what |-> what, payload |-> payload,
                         headers |-> GetHeaders(c) ] >>
               ELSE << >>
    IN  Done(<<request>>, <<response>>, log,
             IF response.status_code >= 400
             THEN Raise(HandleError(response))
             ELSE ResponseJson(response))

\* Send with the debug call left out
Send_WithoutLog(c, method, path, what, payload, response) ==
    LET url == Str(c.api_endpoint.s \o path)
        request == [ method |-> method, url |-> url, headers |-> GetHeaders(c),
                     what |-> what, payload |-> payload, timeout |-> c.timeout ]
    IN  Done(<<request>>, <<response>>, << >>,
             IF response.status_code >= 400
             THEN Raise(HandleError(response))
             ELSE ResponseJson(response))

\* the part the four methods share: build the URL and the headers, log when
\* verbose, send, map an error status, decode the body.  what is "params" for
\* get, "json" for post and put, and "none" for delete
Send(c, method, path, what, payload, response) ==
    LET url == Str(c.api_endpoint.s \o path)
        headers == GetHeaders(c)
        request == [ method |-> method, url |-> url, headers |-> headers,
                     what |-> what, payload |-> payload, timeout |-> c.timeout ]
        log == IF Truthy(c.verbose)
               THEN << [ level |-> "DEBUG", method |-> method, url |-> url,
                         what |-> what, payload |-> payload ] >>
               ELSE << >>
    IN  Done(<<request>>, <<response>>, log,
             IF response.status_code >= 400
             THEN Raise(HandleError(response))
             ELSE ResponseJson(response))

\* HTTPClient.get(path, params=None)
get(c, path, params, response) == Send(c, "GET", path, "params", params, response)

\* HTTPClient.post(path, json=None)
post(c, path, json, response) == Send(c, "POST", path, "body", json, response)

\* HTTPClient.put(path, json=None)
put(c, path, json, response) == Send(c, "PUT", path, "body", json, response)

\* HTTPClient.delete(path)
delete(c, path, response) == Send(c, "DELETE", path, "none", None, response)

----------------------------------------------------------------------------
(* conversimple.api.models: the typed models.  A model class is its declared
   fields; each has a name, the key it is read from on the wire (its alias),
   a type, and whether it is required. *)

Field(name, wire, type, required) ==
    [name |-> name, wire |-> wire, type |-> type, required |-> required]

AgentFields ==
    { Field("id", "id", "str", TRUE), Field("name", "name", "str", TRUE),
      Field("description", "description", "str", TRUE),
      Field("status", "status", "str", TRUE),
      Field("version", "version", "int", TRUE),
      Field("created_at", "created_at", "datetime", TRUE),
      Field("updated_at", "updated_at", "datetime", TRUE),
      Field("spec", "spec", "dict", FALSE),
      Field("agent_config", "agent_config", "dict", FALSE),
      Field("execution_mode", "execution_mode", "str", FALSE) }

DeploymentFields ==
    { Field("id", "id", "str", TRUE), Field("name", "name", "str", TRUE),
      Field("agent_id", "agent_id", "str", TRUE),
      Field("channel", "channel", "str", TRUE),
      Field("status", "status", "str", TRUE),
      Field("environment", "environment", "str", TRUE),
      Field("channel_config", "channel_config", "dict", FALSE),
      Field("engagement_rules", "engagement_rules", "dict", FALSE),
      Field("created_at", "created_at", "datetime", TRUE),
      Field("updated_at", "updated_at", "datetime", TRUE) }

ApiKeyInfoFields ==
    { Field("status", "status", "str", TRUE),
      Field("last_4_chars", "last_4", "str", TRUE),
      Field("created_at", "created_at", "datetime", TRUE),
      Field("last_used_at", "last_used_at", "datetime", FALSE) }

ApiKeyUsageFields ==
    { Field("requests_24h", "requests_24h", "int", TRUE),
      Field("requests_month", "requests_month", "int", TRUE),
      Field("rate_limit", "rate_limit", "int", TRUE),
      Field("rate_limit_remaining", "rate_limit_remaining", "int", TRUE),
      Field("last_request_at", "last_request_at", "datetime", FALSE) }

FieldsOf(cls) ==
    CASE cls = "Agent" -> AgentFields
      [] cls = "Deployment" -> DeploymentFields
      [] cls = "ApiKeyInfo" -> ApiKeyInfoFields
      [] cls = "ApiKeyUsage" -> ApiKeyUsageFields

\* a parsed timestamp: the datetime object built from an ISO-8601 string
Datetime(s) == [t |-> "datetime", iso |-> s]

\* whether wire value v is accepted for a field of the given type
Accepts(type, v) ==
    CASE type = "str" -> v.t = "str"
      [] type = "int" -> v.t = "int"
      [] type = "datetime" -> v.t = "str" /\ v.s # <<>>
      [] type = "dict" -> v.t = "dict"

\* the value the field holds once validated
Validated(type, v) == IF type = "datetime" /\ v.t = "str" THEN Datetime(v.s) ELSE v

\* cls(**data) leaving every optional field at its default
Construct_DroppingOptional(cls, data) ==
    IF data.t # "dict"
    THEN Raise(Builtin("TypeError"))
    ELSE LET fs == FieldsOf(cls)
             bad(f) == IF f.wire \in DOMAIN data.d
                       THEN IF data.d[f.wire] = None
                            THEN f.required
                            ELSE ~Accepts(f.type, data.d[f.wire])
                       ELSE f.required
             value(f) == IF f.required THEN Validated(f.type, data.d[f.wire]) ELSE None
         IN  IF \E f \in fs : bad(f)
             THEN Raise(Builtin("pydantic.ValidationError"))
             ELSE Return([ t |-> "model", cls |-> cls,
                           fields |-> [ n \in { f.name : f \in fs } |->
                                          value(CHOOSE f \in fs : f.name = n) ] ])

\* cls(**data): the model instance, or the exception raised.  A required
\* field must be present; an optional one defaults to None and may hold None;
\* keys that are no field's wire name are ignored.
Construct(cls, data) ==
    IF data.t # "dict"
    THEN Raise(Builtin("TypeError"))
    ELSE LET fs == FieldsOf(cls)
             bad(f) == IF f.wire \in DOMAIN data.d
                       THEN IF data.d[f.wire] = None
                            THEN f.required
                            ELSE ~Accepts(f.type, data.d[f.wire])
                       ELSE f.required
             value(f) == IF f.wire \in DOMAIN data.d
                         THEN Validated(f.type, data.d[f.wire])
                         ELSE None
         IN  IF \E f \in fs : bad(f)
             THEN Raise(Builtin("pydantic.ValidationError"))
             ELSE Return([ t |-> "model", cls |-> cls,
                           fields |-> [ n \in { f.name : f \in fs } |->
                                          value(CHOOSE f \in fs : f.name = n) ] ])

\* instance.name = value on a model instance.  The model classes declare no
\* configuration, so they take pydantic's defaults: instances are not frozen
\* and an assignment is not validated; a name that is no field is refused.
setattr(instance, name, value) ==
    IF name \in DOMAIN instance.fields
    THEN Return([instance EXCEPT !.fields[name] = value])
    ELSE Raise(Builtin("ValueError"))

\* response[key] on a decoded body
Subscript(response, key) ==
    IF response.t # "dict" THEN Raise(Builtin("TypeError"))
    ELSE IF key \notin DOMAIN response.d THEN Raise(Builtin("KeyError"))
    ELSE Return(response.d[key])

\* response.get(key, default) on a decoded body
GetOr(response, key, default) ==
    IF response.t # "dict" THEN Raise(Builtin("AttributeError"))
    ELSE IF key \in DOMAIN response.d THEN Return(response.d[key])
    ELSE Return(default)

\* cls(**response["data"])
ParseData(cls, response) ==
    LET data == Subscript(response, "data")
    IN  IF data.kind = "raise" THEN data ELSE Construct(cls, data.value)

\* [cls(**item) for item in items]: the models, or the first exception raised
RECURSIVE ConstructAll(_, _)
ConstructAll(cls, items) ==
    IF items = <<>> THEN Return(<<>>)
    ELSE LET first == Construct(cls, Head(items))
         IN  IF first.kind = "raise" THEN first
             ELSE LET rest == ConstructAll(cls, Tail(items))
                  IN  IF rest.kind = "raise" THEN rest
                      ELSE Return(<<first.value>> \o rest.value)

\* the items a for loop draws from v: a list's elements, a dict's keys
\* (strings), a string's characters; None and numbers are not iterable
Iterate(v) ==
    CASE v.t = "list" -> Return(v.l)
      [] v.t = "dict" -> Return(IF DOMAIN v.d = {} THEN <<>> ELSE <<Str(<<"key">>)>>)
      [] v.t = "str"  -> Return([i \in 1..Len(v.s) |-> Str(<<v.s[i]>>)])
      [] OTHER        -> Raise(Builtin("TypeError"))

\* ParseList reading the meta from a key the envelope does not have
ParseList_WrongMetaKey(cls, response) ==
    LET data == Subscript(response, "data")
    IN  IF data.kind = "raise" THEN data
        ELSE LET items == Iterate(data.value)
             IN  IF items.kind = "raise" THEN items
                 ELSE LET models == ConstructAll(cls, items.value)
                          meta == GetOr(response, "metadata", Dict(EmptyMap))
                      IN  IF models.kind = "raise" THEN models
                          ELSE Return([ t |-> "tuple",
                                        items |-> <<List(models.value), meta.value>> ])

\* the tail the two list operations share: parse response["data"] item by
\* item, then take response.get("meta", {})
ParseList(cls, response) ==
    LET data == Subscript(response, "data")
    IN  IF data.kind = "raise" THEN data
        ELSE LET items == Iterate(data.value)
             IN  IF items.kind = "raise" THEN items
                 ELSE LET models == ConstructAll(cls, items.value)
                          meta == GetOr(response, "meta", Dict(EmptyMap))
                      IN  IF models.kind = "raise" THEN models
                          ELSE Return([ t |-> "tuple",
                                        items |-> <<List(models.value), meta.value>> ])

\* ThenParseData catching the transport's exception and raising a plain
\* APIError in its place
ThenParseData_Wrapping(cls, r) ==
    IF r.outcome.kind = "raise"
    THEN [r EXCEPT !.outcome = Raise(APIError("APIError", Str(<<"request failed">>), None, None))]
    ELSE [r EXCEPT !.outcome = ParseData(cls, r.outcome.value)]

\* return cls(**response["data"]), once the transport has returned response
ThenParseData(cls, r) ==
    IF r.outcome.kind = "raise" THEN r
    ELSE [r EXCEPT !.outcome = ParseData(cls, r.outcome.value)]

\* return the parsed list and the meta, once the transport has returned
ThenParseList(cls, r) ==
    IF r.outcome.kind = "raise" THEN r
    ELSE [r EXCEPT !.outcome = ParseList(cls, r.outcome.value)]

\* return response.get("data", {}), once the transport has returned response
ThenGetData(r) ==
    IF r.outcome.kind = "raise" THEN r
    ELSE [r EXCEPT !.outcome = GetOr(r.outcome.value, "data", Dict(EmptyMap))]

\* return None, once the transport has returned
ThenNone(r) ==
    IF r.outcome.kind = "raise" THEN r ELSE [r EXCEPT !.outcome = Return(None)]

\* an operation that raised before it sent anything
RaisedLocally(e) == Done(<<>>, <<>>, <<>>, Raise(e))

----------------------------------------------------------------------------
(* conversimple.api.endpoints.agents: AgentEndpoint *)

DefaultPage == 1
DefaultPerPage == 20

AgentsPath == <<"/", "api", "/", "v1", "/", "agents">>

\* f"/api/v1/agents/{agent_id}"
AgentPath(agent_id) == AgentsPath \o <<"/">> \o agent_id.s

\* PutIfTruthy with the test "is not None" in place of the truth value
PutIfTruthy_NotNone(d, key, value) == IF value # None THEN Put(d, key, value) ELSE d

\* params[key] = value, when value is truthy
PutIfTruthy(d, key, value) == IF Truthy(value) THEN Put(d, key, value) ELSE d

\* PutIfNotNone with the truth value in place of the test "is not None"
PutIfNotNone_Truthy(d, key, value) == IF Truthy(value) THEN Put(d, key, value) ELSE d

\* payload[key] = value, when value is not None
PutIfNotNone(d, key, value) == IF value # None THEN Put(d, key, value) ELSE d

\* list_agents(page=1, per_page=20, status=None, search=None)
list_agents(c, kw, response) ==
    LET params0 == [ page     |-> Arg(kw, "page", Num(DefaultPage)),
                     per_page |-> Arg(kw, "per_page", Num(DefaultPerPage)) ]
        params1 == PutIfTruthy(params0, "status", Arg(kw, "status", None))
        params  == PutIfTruthy(params1, "search", Arg(kw, "search", None))
    IN  ThenParseList("Agent", get(c, AgentsPath, Dict(params), response))

\* create_agent(name, description, agent_config=None)
create_agent(c, name, description, kw, response) ==
    LET payload0 == [name |-> name, description |-> description]
        payload  == PutIfTruthy(payload0, "agent_config", Arg(kw, "agent_config", None))
    IN  ThenParseData("Agent", post(c, AgentsPath, Dict(payload), response))

\* get_agent(agent_id)
get_agent(c, agent_id, response) ==
    ThenParseData("Agent", get(c, AgentPath(agent_id), None, response))

\* update_agent without the guard against an empty payload
update_agent_Unguarded(c, agent_id, kw, response) ==
    LET payload1 == PutIfNotNone(EmptyMap, "name", Arg(kw, "name", None))
        payload2 == PutIfNotNone(payload1, "description", Arg(kw, "description", None))
        payload  == PutIfNotNone(payload2, "status", Arg(kw, "status", None))
    IN  ThenParseData("Agent", put(c, AgentPath(agent_id), Dict(payload), response))

\* update_agent(agent_id, name=None, description=None, status=None)
update_agent(c, agent_id, kw, response) ==
    LET payload1 == PutIfNotNone(EmptyMap, "name", Arg(kw, "name", None))
        payload2 == PutIfNotNone(payload1, "description", Arg(kw, "description", None))
        payload  == PutIfNotNone(payload2, "status", Arg(kw, "status", None))
    IN  IF ~Truthy(Dict(payload))
        THEN RaisedLocally(Builtin("ValueError"))
        ELSE ThenParseData("Agent", put(c, AgentPath(agent_id), Dict(payload), response))

\* delete_agent(agent_id): the transport's return value is dropped
delete_agent(c, agent_id, response) ==
    ThenNone(delete(c, AgentPath(agent_id), response))

\* get_agent_spec(agent_id)
get_agent_spec(c, agent_id, response) ==
    ThenGetData(get(c, AgentPath(agent_id) \o <<"/", "spec">>, None, response))

\* get_agent_generation_status(agent_id)
get_agent_generation_status(c, agent_id, response) ==
    ThenGetData(get(c, AgentPath(agent_id) \o <<"/", "generation-status">>, None, response))

\* publish_agent(agent_id)
publish_agent(c, agent_id, response) ==
    ThenParseData("Agent", post(c, AgentPath(agent_id) \o <<"/", "publish">>, Dict(EmptyMap), response))

----------------------------------------------------------------------------
(* conversimple.api.endpoints.deployments: DeploymentEndpoint *)

DeploymentsPath == <<"/", "api", "/", "v1", "/", "deployments">>

\* f"/api/v1/deployments/{deployment_id}"
DeploymentPath(deployment_id) == DeploymentsPath \o <<"/">> \o deployment_id.s

DefaultEnvironment == Str(<<"widget">>)

\* list_deployments(page=1, per_page=20, agent_id=None, status=None, environment=None)
list_deployments(c, kw, response) ==
    LET params0 == [ page     |-> Arg(kw, "page", Num(DefaultPage)),
                     per_page |-> Arg(kw, "per_page", Num(DefaultPerPage)) ]
        params1 == PutIfTruthy(params0, "agent_id", Arg(kw, "agent_id", None))
        params2 == PutIfTruthy(params1, "status", Arg(kw, "status", None))
        params  == PutIfTruthy(params2, "environment", Arg(kw, "environment", None))
    IN  ThenParseList("Deployment", get(c, DeploymentsPath, Dict(params), response))

\* create_deployment(name, agent_id, channel, environment="widget",
\*                   channel_config=None, engagement_rules=None, call_direction=None)
create_deployment(c, name, agent_id, channel, kw, response) ==
    LET payload0 == [ name |-> name, agent_id |-> agent_id, channel |-> channel,
                      environment |-> Arg(kw, "environment", DefaultEnvironment) ]
        payload1 == PutIfTruthy(payload0, "channel_config", Arg(kw, "channel_config", None))
        payload2 == PutIfTruthy(payload1, "engagement_rules",
                                Arg(kw, "engagement_rules", None))
        payload  == PutIfTruthy(payload2, "call_direction", Arg(kw, "call_direction", None))
    IN  ThenParseData("Deployment", post(c, DeploymentsPath, Dict(payload), response))

\* get_deployment(deployment_id)
get_deployment(c, deployment_id, response) ==
    ThenParseData("Deployment", get(c, DeploymentPath(deployment_id), None, response))

\* update_deployment(deployment_id, name=None, environment=None)
update_deployment(c, deployment_id, kw, response) ==
    LET payload1 == PutIfNotNone(EmptyMap, "name", Arg(kw, "name", None))
        payload  == PutIfNotNone(payload1, "environment", Arg(kw, "environment", None))
    IN  IF ~Truthy(Dict(payload))
        THEN RaisedLocally(Builtin("ValueError"))
        ELSE ThenParseData("Deployment", put(c, DeploymentPath(deployment_id), Dict(payload), response))

\* delete_deployment(deployment_id)
delete_deployment(c, deployment_id, response) ==
    ThenNone(delete(c, DeploymentPath(deployment_id), response))

\* activate_deployment posting no body at all
activate_deployment_NoBody(c, deployment_id, response) ==
    ThenParseData("Deployment", post(c, DeploymentPath(deployment_id) \o <<"/", "activate">>,
                  None, response))

\* activate_deployment(deployment_id)
activate_deployment(c, deployment_id, response) ==
    ThenParseData("Deployment", post(c, DeploymentPath(deployment_id) \o <<"/", "activate">>,
                  Dict(EmptyMap), response))

\* deactivate_deployment(deployment_id)
deactivate_deployment(c, deployment_id, response) ==
    ThenParseData("Deployment", post(c, DeploymentPath(deployment_id) \o <<"/", "deactivate">>,
                  Dict(EmptyMap), response))

----------------------------------------------------------------------------
(* conversimple.api.endpoints.api_keys: ApiKeyEndpoint *)

ApiKeyPath == <<"/", "api", "/", "v1", "/", "settings", "/", "api-key">>

\* get_api_key_info()
get_api_key_info(c, response) ==
    ThenParseData("ApiKeyInfo", get(c, ApiKeyPath, None, response))

\* rotate_api_key posting to the path of the key itself
rotate_api_key_AtKeyPath(c, response) ==
    ThenGetData(post(c, ApiKeyPath, Dict(EmptyMap), response))

\* rotate_api_key()
rotate_api_key(c, response) ==
    ThenGetData(post(c, ApiKeyPath \o <<"/", "rotate">>, Dict(EmptyMap), response))

\* get_api_key_usage()
get_api_key_usage(c, response) ==
    ThenParseData("ApiKeyUsage", get(c, ApiKeyPath \o <<"/", "usage">>, None, response))

----------------------------------------------------------------------------
(* The inputs tried: environments, constructor arguments, operation
   arguments and server responses. *)

MaxTrailingSlashes == 2
MaxPage == 2

RECURSIVE Slashes(_)
Slashes(n) == IF n = 0 THEN <<>> ELSE <<"/">> \o Slashes(n - 1)

EnvEndpoint == <<"https:", "/", "/", "env.example">>
DevEndpoint == <<"https:", "/", "/", "dev.example", "/", "v2">>

\* what os.environ may hold at import: none of the variables, or all of them
Environments ==
    { EmptyMap,
      [ CONVERSIMPLE_API_ENDPOINT |-> EnvEndpoint \o <<"/">>,
        CONVERSIMPLE_API_TIMEOUT  |-> <<"5">>,
        CONVERSIMPLE_VERBOSE      |-> <<"TRUE">> ] }

\* endpoint strings: nothing, or a URL, followed by up to MaxTrailingSlashes slashes
EndpointStrings ==
    { Str(base \o Slashes(n)) : base \in {<<>>, DevEndpoint}, n \in 0..MaxTrailingSlashes }

ApiKeys == {Str(<<"key-1">>), Str(<<"key-2">>)}

\* the keyword arguments tried on HTTPClient(api_key, ...)
CtorChoices ==
    [ api_endpoint |-> EndpointStrings,
      timeout      |-> {None, Num(0)},
      verbose      |-> {Bool(FALSE), Bool(TRUE)} ]

\* the keyword arguments tried on Config.update
UpdateChoices ==
    [ API_ENDPOINT |-> {Str(<<"https:", "/", "/", "set.example", "/">>)},
      API_TIMEOUT  |-> {Num(7)},
      VERBOSE      |-> {Bool(FALSE), Bool(TRUE)},
      RETRY_LIMIT  |-> {Num(3)},
      get_api_endpoint |-> {None} ]

Ids == {Str(<<"agent-1">>), Str(<<"dep-2">>)}

OptionalStrings == {None, Str(<<>>), Str(<<"draft">>)}
OptionalDicts == {None, Dict(EmptyMap), Dict([greeting |-> Str(<<"hello">>)])}
Pages == { Num(p) : p \in 1..MaxPage }
PageSizes == {Num(5)}

Timestamp == Str(<<"2024-01-01T00:00:00Z">>)

AgentData ==
    Dict([ id |-> Str(<<"agent-1">>), name |-> Str(<<"Support Bot">>),
           description |-> Str(<<"Support agent">>), status |-> Str(<<"draft">>),
           version |-> Num(1), created_at |-> Timestamp, updated_at |-> Timestamp ])

DeploymentData ==
    Dict([ id |-> Str(<<"dep-2">>), name |-> Str(<<"Support Widget">>),
           agent_id |-> Str(<<"agent-1">>), channel |-> Str(<<"widget">>),
           status |-> Str(<<"active">>), environment |-> Str(<<"production">>),
           created_at |-> Timestamp, updated_at |-> Timestamp ])

\* an agent as a newer server sends it: with an optional field set and with a
\* key the Agent model does not declare
AgentDataWithExtras ==
    Dict(Put(Put(AgentData.d, "agent_config", Dict([greeting |-> Str(<<"hello">>)])),
             "customer_id", Str(<<"cust-9">>)))

ApiKeyInfoData ==
    Dict([ status |-> Str(<<"active">>), last_4 |-> Str(<<"1234">>),
           created_at |-> Timestamp ])

ApiKeyUsageData ==
    Dict([ requests_24h |-> Num(100), requests_month |-> Num(5000),
           rate_limit |-> Num(10000), rate_limit_remaining |-> Num(5000),
           last_request_at |-> Timestamp ])

\* the data of a key rotation's envelope
RotationData == Dict([new_api_key |-> Str(<<"key-2">>)])

FullMeta == Dict([page |-> Num(1), per_page |-> Num(20), total_count |-> Num(1)])
PartialMeta == Dict([page |-> Num(1)])

Envelopes ==
    { Dict([success |-> Bool(TRUE), data |-> d])
      : d \in {AgentData, DeploymentData, AgentDataWithExtras, ApiKeyInfoData,
               ApiKeyUsageData, RotationData} }
    \cup { Dict([success |-> Bool(TRUE), data |-> List(<<d>>)])
           : d \in {AgentData, DeploymentData} }
    \cup { Dict([success |-> Bool(TRUE), data |-> List(<<d>>), meta |-> m])
           : d \in {AgentData, DeploymentData}, m \in {FullMeta, PartialMeta} }

ErrorObjects ==
    { Dict(EmptyMap),
      Dict([message |-> Str(<<"Agent not found">>)]),
      Dict([message |-> Str(<<"Validation failed">>),
            errors |-> Dict([name |-> Str(<<"Name is required">>)])]) }

\* bodies: empty, text that is not JSON, JSON that is no object (a list,
\* null), error objects and success envelopes
Bodies ==
    { TextBody(<<>>), TextBody(<<"<html>Bad Gateway</html>">>) }
    \cup { JsonBody(v) : v \in {List(<<>>), None} \cup ErrorObjects \cup Envelopes }

StatusCodes == {200, 204, 400, 401, 403, 404, 422, 500}

Responses == [status_code : StatusCodes, body : Bodies]

----------------------------------------------------------------------------
(* State and actions *)

NoCall == [op |-> "none", sent |-> <<>>, got |-> <<>>, log |-> <<>>]

\* import conversimple.config under an environment of envs, then construct
\* the client with one of the keys and keyword arguments tried
InitWith(envs, keys, choices) ==
    /\ env \in envs
    /\ Config = ConfigClass(env)
    /\ overrides = EmptyMap
    /\ \E k \in keys, kw \in Kwargs(choices) :
          /\ ctor = [api_key |-> k, kw |-> kw]
          /\ client = HTTPClientInit(k, kw, Config)
    /\ call = NoCall
    /\ held = None

\* a client exists and the caller holds no result of an earlier call
Idle == client.constructed /\ call = NoCall

\* the caller calls operation op with args, which does r and hands the caller
\* its result or its exception
Invoke(op, args, r) ==
    /\ call' = [ op |-> op, args |-> args, sent |-> r.sent, got |-> r.got,
                 log |-> r.log, outcome |-> r.outcome ]
    /\ UNCHANGED <<env, Config, overrides, client, ctor, held>>

\* the caller goes on, keeping nothing of the last call
Continue ==
    /\ call # NoCall
    /\ call' = NoCall
    /\ UNCHANGED <<env, Config, overrides, client, ctor, held>>

(* the transport methods, called directly *)

TransportPaths == {AgentsPath, AgentPath(Str(<<"agent-1">>))}
TransportPayloads == {None, Dict([name |-> Str(<<"Bot">>)])}

Get ==
    /\ Idle
    /\ \E path \in TransportPaths, params \in TransportPayloads, response \in Responses :
        Invoke("get", [path |-> path, payload |-> params],
               get(client, path, params, response))

Post ==
    /\ Idle
    /\ \E path \in TransportPaths, json \in TransportPayloads, response \in Responses :
        Invoke("post", [path |-> path, payload |-> json],
               post(client, path, json, response))

Put_ ==
    /\ Idle
    /\ \E path \in TransportPaths, json \in TransportPayloads, response \in Responses :
        Invoke("put", [path |-> path, payload |-> json],
               put(client, path, json, response))

Delete ==
    /\ Idle
    /\ \E path \in TransportPaths, response \in Responses :
        Invoke("delete", [path |-> path, payload |-> None],
               delete(client, path, response))

TransportInit ==
    InitWith({EmptyMap}, ApiKeys,
             [api_endpoint |-> EndpointStrings, verbose |-> {Bool(TRUE)}])

TransportNext == Get \/ Post \/ Put_ \/ Delete \/ Continue

SpecTransport == TransportInit /\ [][TransportNext]_vars

(* the endpoint operations *)

ListAgents ==
    /\ Idle
    /\ \E kw \in Kwargs([ page |-> Pages, per_page |-> PageSizes,
                          status |-> OptionalStrings, search |-> OptionalStrings ]),
          response \in Responses :
            Invoke("list_agents", [kw |-> kw], list_agents(client, kw, response))

CreateAgent ==
    /\ Idle
    /\ \E name \in {Str(<<"Support Bot">>)}, description \in {Str(<<>>)},
          kw \in Kwargs([agent_config |-> OptionalDicts]), response \in Responses :
            Invoke("create_agent", [name |-> name, description |-> description, kw |-> kw],
                   create_agent(client, name, description, kw, response))

GetAgent ==
    /\ Idle
    /\ \E id \in Ids, response \in Responses :
            Invoke("get_agent", [id |-> id], get_agent(client, id, response))

UpdateAgent ==
    /\ Idle
    /\ \E id \in Ids,
          kw \in Kwargs([ name |-> OptionalStrings, description |-> OptionalStrings,
                          status |-> OptionalStrings ]),
          response \in Responses :
            Invoke("update_agent", [id |-> id, kw |-> kw],
                   update_agent(client, id, kw, response))

DeleteAgent ==
    /\ Idle
    /\ \E id \in Ids, response \in Responses :
            Invoke("delete_agent", [id |-> id], delete_agent(client, id, response))

GetAgentSpec ==
    /\ Idle
    /\ \E id \in Ids, response \in Responses :
            Invoke("get_agent_spec", [id |-> id], get_agent_spec(client, id, response))

GetAgentGenerationStatus ==
    /\ Idle
    /\ \E id \in Ids, response \in Responses :
            Invoke("get_agent_generation_status", [id |-> id],
                   get_agent_generation_status(client, id, response))

PublishAgent ==
    /\ Idle
    /\ \E id \in Ids, response \in Responses :
            Invoke("publish_agent", [id |-> id], publish_agent(client, id, response))

ListDeployments ==
    /\ Idle
    /\ \E kw \in Kwargs([ page |-> Pages, per_page |-> PageSizes,
                          agent_id |-> OptionalStrings, status |-> OptionalStrings,
                          environment |-> OptionalStrings ]),
          response \in Responses :
            Invoke("list_deployments", [kw |-> kw], list_deployments(client, kw, response))

CreateDeployment ==
    /\ Idle
    /\ \E name \in {Str(<<"Support Widget">>)}, agent_id \in {Str(<<"agent-1">>)},
          channel \in {Str(<<"widget">>)},
          kw \in Kwargs([ environment |-> {Str(<<"dev">>)},
                          channel_config |-> OptionalDicts,
                          engagement_rules |-> OptionalDicts,
                          call_direction |-> OptionalStrings ]),
          response \in Responses :
            Invoke("create_deployment",
                   [name |-> name, agent_id |-> agent_id, channel |-> channel, kw |-> kw],
                   create_deployment(client, name, agent_id, channel, kw, response))

GetDeployment ==
    /\ Idle
    /\ \E id \in Ids, response \in Responses :
            Invoke("get_deployment", [id |-> id], get_deployment(client, id, response))

UpdateDeployment ==
    /\ Idle
    /\ \E id \in Ids,
          kw \in Kwargs([name |-> OptionalStrings, environment |-> OptionalStrings]),
          response \in Responses :
            Invoke("update_deployment", [id |-> id, kw |-> kw],
                   update_deployment(client, id, kw, response))

DeleteDeployment ==
    /\ Idle
    /\ \E id \in Ids, response \in Responses :
            Invoke("delete_deployment", [id |-> id], delete_deployment(client, id, response))

ActivateDeployment ==
    /\ Idle
    /\ \E id \in Ids, response \in Responses :
            Invoke("activate_deployment", [id |-> id],
                   activate_deployment(client, id, response))

DeactivateDeployment ==
    /\ Idle
    /\ \E id \in Ids, response \in Responses :
            Invoke("deactivate_deployment", [id |-> id],
                   deactivate_deployment(client, id, response))

GetApiKeyInfo ==
    /\ Idle
    /\ \E response \in Responses :
            Invoke("get_api_key_info", EmptyMap, get_api_key_info(client, response))

\* a rotation after which the client authenticates with the key it returned
RotateApiKey_AdoptingNewKey ==
    /\ Idle
    /\ \E response \in Responses :
          LET r == rotate_api_key(client, response)
              adopted == /\ r.outcome.kind = "return"
                         /\ r.outcome.value.t = "dict"
                         /\ "new_api_key" \in DOMAIN r.outcome.value.d
          IN  /\ call' = [ op |-> "rotate_api_key", args |-> EmptyMap, sent |-> r.sent,
                           got |-> r.got, log |-> r.log, outcome |-> r.outcome ]
              /\ client' = IF adopted
                           THEN [client EXCEPT !.api_key = r.outcome.value.d.new_api_key]
                           ELSE client
    /\ UNCHANGED <<env, Config, overrides, ctor, held>>

RotateApiKey ==
    /\ Idle
    /\ \E response \in Responses :
            Invoke("rotate_api_key", EmptyMap, rotate_api_key(client, response))

GetApiKeyUsage ==
    /\ Idle
    /\ \E response \in Responses :
            Invoke("get_api_key_usage", EmptyMap, get_api_key_usage(client, response))

EndpointsInit ==
    InitWith({EmptyMap}, {Str(<<"key-1">>)}, [verbose |-> {Bool(TRUE)}])

EndpointsNext ==
    \/ ListAgents \/ CreateAgent \/ GetAgent \/ UpdateAgent \/ DeleteAgent
    \/ GetAgentSpec \/ GetAgentGenerationStatus \/ PublishAgent
    \/ ListDeployments \/ CreateDeployment \/ GetDeployment \/ UpdateDeployment
    \/ DeleteDeployment \/ ActivateDeployment \/ DeactivateDeployment
    \/ GetApiKeyInfo \/ RotateApiKey \/ GetApiKeyUsage
    \/ Continue

SpecEndpoints == EndpointsInit /\ [][EndpointsNext]_vars

(* configuration and construction *)

\* Config.update(**kwargs)
ConfigUpdate ==
    \E kwargs \in Kwargs(UpdateChoices) :
        /\ Config' = ConfigUpdateResult(Config, kwargs)
        /\ overrides' = [ a \in DOMAIN overrides \cup DOMAIN kwargs |->
                            IF a \in DOMAIN kwargs THEN kwargs[a] ELSE overrides[a] ]
        /\ UNCHANGED <<env, client, ctor, call, held>>

\* client = HTTPClient(api_key, **kw)
NewClient ==
    \E k \in {Str(<<"key-1">>)}, kw \in Kwargs(CtorChoices) :
        /\ client' = HTTPClientInit(k, kw, Config)
        /\ ctor' = [api_key |-> k, kw |-> kw]
        /\ UNCHANGED <<env, Config, overrides, call, held>>

ConfigInit ==
    /\ env \in Environments
    /\ Config = ConfigClass(env)
    /\ overrides = EmptyMap
    /\ client = NoClient
    /\ ctor = EmptyMap
    /\ call = NoCall
    /\ held = None

ConfigNext == ConfigUpdate \/ NewClient

SpecConfig == ConfigInit /\ [][ConfigNext]_vars

(* the caller and the model instances it is handed *)

AssignedNames == {"name", "status", "nickname"}

\* entity = client.agents.get_agent(...): the caller keeps the instance returned
Keep ==
    /\ call # NoCall
    /\ call.outcome.kind = "return"
    /\ call.outcome.value.t = "model"
    /\ held' = call.outcome.value
    /\ call' = NoCall
    /\ UNCHANGED <<env, Config, overrides, client, ctor>>

\* entity.name = value: the caller assigns to an attribute of the instance it
\* keeps; a refused assignment leaves the instance as it is
Assign ==
    /\ Idle
    /\ held # None
    /\ \E name \in AssignedNames :
          LET r == setattr(held, name, Str(<<"changed">>))
          IN  held' = IF r.kind = "return" THEN r.value ELSE held
    /\ UNCHANGED <<env, Config, overrides, client, ctor, call>>

\* new_key = client.api_keys.rotate_api_key()["new_api_key"]: the caller keeps
\* the key the rotation returned
KeepNewKey ==
    /\ call # NoCall
    /\ call.op = "rotate_api_key"
    /\ call.outcome.kind = "return"
    /\ call.outcome.value.t = "dict"
    /\ "new_api_key" \in DOMAIN call.outcome.value.d
    /\ held' = call.outcome.value.d.new_api_key
    /\ call' = NoCall
    /\ UNCHANGED <<env, Config, overrides, client, ctor>>

RotationInit == InitWith({EmptyMap}, {Str(<<"key-1">>)}, [verbose |-> {Bool(TRUE)}])

RotationNext ==
    \/ RotateApiKey \/ GetApiKeyInfo \/ GetApiKeyUsage
    \/ KeepNewKey \/ Continue

SpecRotation == RotationInit /\ [][RotationNext]_vars

ModelsInit == InitWith({EmptyMap}, {Str(<<"key-1">>)}, [verbose |-> {Bool(TRUE)}])

ModelsNext ==
    \/ GetAgent \/ GetDeployment \/ GetApiKeyInfo \/ GetApiKeyUsage
    \/ Keep \/ Assign \/ Continue

SpecModels == ModelsInit /\ [][ModelsNext]_vars

----------------------------------------------------------------------------
(* Properties of the transport client, under SpecTransport *)

TransportOps == {"get", "post", "put", "delete"}

\* the last call was a transport method that sent a request and got a response
TransportAnswered == call.op \in TransportOps /\ Len(call.got) = 1

\* the exception kind the taxonomy gives a status code
KindOf(status_code) ==
    CASE status_code = 422 -> "ValidationError"
      [] status_code = 404 -> "NotFoundError"
      [] status_code = 401 -> "UnauthorizedError"
      [] status_code = 403 -> "ForbiddenError"
      [] OTHER -> "APIError"

\* C1: for each transport method and every response with status 422, 404,
\* 401 or 403, the call raises exactly ValidationError, NotFoundError,
\* UnauthorizedError or ForbiddenError, carrying the response's status code.
C1_MappedStatusRaisesItsKind ==
    (TransportAnswered /\ call.got[1].status_code \in {422, 404, 401, 403})
    => /\ call.outcome.kind = "raise"
       /\ call.outcome.exc.class = KindOf(call.got[1].status_code)
       /\ call.outcome.exc.status_code = call.got[1].status_code

\* C2: for every response with a status >= 400 other than 422, 404, 401 and
\* 403, the call raises APIError itself, carrying the status code, and the
\* decoded body as its response_data.
C2_OtherStatusRaisesAPIError ==
    (TransportAnswered /\ call.got[1].status_code >= 400
       /\ call.got[1].status_code \notin {422, 404, 401, 403})
    => /\ call.outcome.kind = "raise"
       /\ call.outcome.exc.class = "APIError"
       /\ call.outcome.exc.status_code = call.got[1].status_code
       /\ call.got[1].body.json => call.outcome.exc.response_data = call.got[1].body.value

\* C10: for every response with status >= 400, whatever its body (empty, text
\* that is not JSON, JSON that is no object), the call raises the taxonomy's
\* exception for the status code, never another exception; when the body is
\* no JSON, the message is the raw response text.
C10_AnyErrorBodyRaisesTaxonomy ==
    (TransportAnswered /\ call.got[1].status_code >= 400)
    => /\ call.outcome.kind = "raise"
       /\ call.outcome.exc.class \in Taxonomy
       /\ call.outcome.exc.class = KindOf(call.got[1].status_code)
       /\ ~call.got[1].body.json => call.outcome.exc.message = Str(call.got[1].body.text)

----------------------------------------------------------------------------
(* Properties of the endpoint operations, under SpecEndpoints *)

UpdateOps == {"update_agent", "update_deployment"}
CreateOps == {"create_agent", "create_deployment"}
ListOps == {"list_agents", "list_deployments"}

\* the optional fields the caller supplied: passed, and not as None (None is
\* the parameters' default, the way a caller says "not given")
Supplied(kw) == { k \in DOMAIN kw : kw[k] # None }

\* the body or the query of the one request the last call sent
Payload == call.sent[1].payload.d

\* C3 as claimed: an update called with no optional field raises the
\* taxonomy's ValidationError and sends no HTTP request.
C3_UpdateWithoutFieldsRaisesValidationError ==
    (call.op \in UpdateOps /\ Supplied(call.args.kw) = {})
    => /\ call.outcome.kind = "raise"
       /\ call.outcome.exc.class = "ValidationError"
       /\ call.sent = <<>>

\* C3, amended: an update called with no optional field raises the built-in
\* ValueError (which is no APIError) and sends no HTTP request.
C3_UpdateWithoutFieldsRaisesValueError ==
    (call.op \in UpdateOps /\ Supplied(call.args.kw) = {})
    => /\ call.outcome.kind = "raise"
       /\ call.outcome.exc.class = "ValueError"
       /\ call.outcome.exc.class \notin Taxonomy
       /\ call.sent = <<>>
       /\ call.got = <<>>

C3_Witness ==
    /\ call.op = "update_deployment"
    /\ call.args.kw = [name |-> None]
    /\ call.outcome.kind = "raise"
    /\ call.outcome.exc.class = "ValueError"
    /\ call.sent = <<>>

CreateOptionalFields(op) ==
    IF op = "create_agent" THEN {"agent_config"}
    ELSE {"channel_config", "engagement_rules", "call_direction"}

\* C4: the POST body of create_agent and create_deployment holds an optional
\* field exactly when the caller provided it, with the value provided, even
\* when that value is empty.
C4_CreateBodyHoldsWhatWasProvided ==
    (call.op \in CreateOps /\ Len(call.sent) = 1)
    => \A f \in CreateOptionalFields(call.op) :
          /\ f \in DOMAIN Payload <=> f \in Supplied(call.args.kw)
          /\ f \in Supplied(call.args.kw) => Payload[f] = call.args.kw[f]

\* C5: an update called with at least one optional field supplied sends one
\* PUT whose body holds exactly the supplied fields, each with the supplied
\* value (an empty string included).
C5_UpdateBodyIsSuppliedFields ==
    (call.op \in UpdateOps /\ Supplied(call.args.kw) # {})
    => /\ Len(call.sent) = 1
       /\ call.sent[1].method = "PUT"
       /\ call.sent[1].what = "body"
       /\ call.sent[1].payload = Dict([ k \in Supplied(call.args.kw) |-> call.args.kw[k] ])

C5_Witness ==
    /\ call.op = "update_agent"
    /\ call.args.kw = [name |-> Str(<<>>), status |-> None]
    /\ Len(call.sent) = 1
    /\ call.sent[1].payload = Dict([name |-> Str(<<>>)])

ListFilters(op) ==
    IF op = "list_agents" THEN {"status", "search"}
    ELSE {"agent_id", "status", "environment"}

\* C6 as claimed: the query of a list operation holds page and per_page
\* (1 and 20 unless given) and holds a filter exactly when the caller supplied
\* it, with the supplied value.
C6_QueryHoldsSuppliedFilters ==
    (call.op \in ListOps /\ Len(call.sent) = 1)
    => /\ Payload.page = Arg(call.args.kw, "page", Num(1))
       /\ Payload.per_page = Arg(call.args.kw, "per_page", Num(20))
       /\ \A f \in ListFilters(call.op) :
             /\ f \in DOMAIN Payload <=> f \in Supplied(call.args.kw)
             /\ f \in DOMAIN Payload => Payload[f] = call.args.kw[f]

\* C6, amended: the query of a list operation holds page and per_page (1 and
\* 20 unless given) and holds a filter exactly when the caller supplied a
\* non-empty value for it, with that value; a filter given as the empty string
\* is left out like one not given.
C6_QueryHoldsNonEmptyFilters ==
    call.op \in ListOps
    => /\ Len(call.sent) = 1
       /\ call.sent[1].method = "GET"
       /\ call.sent[1].what = "params"
       /\ DOMAIN Payload =
            {"page", "per_page"}
            \cup { f \in ListFilters(call.op) \cap Supplied(call.args.kw) :
                     call.args.kw[f] # Str(<<>>) }
       /\ Payload.page = Arg(call.args.kw, "page", Num(1))
       /\ Payload.per_page = Arg(call.args.kw, "per_page", Num(20))
       /\ \A f \in DOMAIN Payload \ {"page", "per_page"} : Payload[f] = call.args.kw[f]

C6_Witness ==
    /\ call.op = "list_deployments"
    /\ call.args.kw = [status |-> Str(<<>>), environment |-> Str(<<"draft">>)]
    /\ Payload = [ page |-> Num(1), per_page |-> Num(20),
                   environment |-> Str(<<"draft">>) ]

\* the last call was a list operation that returned
ListReturned == call.op \in ListOps /\ call.outcome.kind = "return"

MetaKeys == {"page", "per_page", "total_count"}

\* C7 as claimed: every successful return of a list operation yields a
\* metadata mapping that holds page, per_page and total_count.
C7_ListMetaHoldsPagination ==
    ListReturned
    => /\ call.outcome.value.items[2].t = "dict"
       /\ MetaKeys \subseteq DOMAIN call.outcome.value.items[2].d

\* C7, amended: every successful return of a list operation yields the parsed
\* entities and, unchanged, the meta of the response envelope (so it holds
\* page, per_page and total_count whenever the envelope's meta does), or an
\* empty mapping when the envelope has no meta.
C7_ListMetaIsEnvelopeMeta ==
    ListReturned
    => LET envelope == call.got[1].body.value.d
           entities == call.outcome.value.items[1]
           meta == call.outcome.value.items[2]
       IN  /\ entities.t = "list"
           /\ \A i \in 1..Len(entities.l) : entities.l[i].t = "model"
           /\ meta = IF "meta" \in DOMAIN envelope THEN envelope.meta ELSE Dict(EmptyMap)
           /\ ("meta" \in DOMAIN envelope /\ envelope.meta.t = "dict"
                 /\ MetaKeys \subseteq DOMAIN envelope.meta.d)
              => MetaKeys \subseteq DOMAIN meta.d

C7_Witness ==
    /\ call.op = "list_agents"
    /\ call.outcome.kind = "return"
    /\ Len(call.outcome.value.items[1].l) = 1
    /\ call.outcome.value.items[1].l[1].fields.name = Str(<<"Support Bot">>)
    /\ call.outcome.value.items[2] = FullMeta

----------------------------------------------------------------------------
(* Properties of configuration and construction *)

\* x is y followed by slashes only, and y ends in no slash
StripsTo(x, y) ==
    /\ y = <<>> \/ y[Len(y)] # "/"
    /\ \E n \in 0..Len(x) : x = y \o [i \in 1..n |-> "/"]

\* the integer an environment text stands for
IntOf(text) == CASE text = <<"5">> -> 5 [] text = <<"3", "0">> -> 30

\* client c, constructed with args while the environment is env and the
\* values set through Config.update are overrides, uses for each setting the
\* first of: the argument passed, the value set through Config.update, the
\* value from the environment, the literal default.  An endpoint argument
\* that is the empty string counts as passed only when emptyCounts.
UsesPrecedence(c, args, emptyCounts) ==
    LET kw == args.kw
        endpointPassed ==
            /\ "api_endpoint" \in Supplied(kw)
            /\ emptyCounts \/ kw.api_endpoint # Str(<<>>)
        endpoint ==
            IF endpointPassed THEN kw.api_endpoint
            ELSE IF "API_ENDPOINT" \in DOMAIN overrides THEN overrides.API_ENDPOINT
            ELSE IF "CONVERSIMPLE_API_ENDPOINT" \in DOMAIN env
                 THEN Str(env.CONVERSIMPLE_API_ENDPOINT)
            ELSE Str(<<"https:", "/", "/", "api.conversimple.com">>)
        timeout ==
            IF "timeout" \in Supplied(kw) THEN kw.timeout
            ELSE IF "API_TIMEOUT" \in DOMAIN overrides THEN overrides.API_TIMEOUT
            ELSE IF "CONVERSIMPLE_API_TIMEOUT" \in DOMAIN env
                 THEN Num(IntOf(env.CONVERSIMPLE_API_TIMEOUT))
            ELSE Num(30)
        verbose ==
            IF "verbose" \in Supplied(kw) THEN kw.verbose
            ELSE IF "VERBOSE" \in DOMAIN overrides THEN overrides.VERBOSE
            ELSE IF "CONVERSIMPLE_VERBOSE" \in DOMAIN env
                 THEN Bool(env.CONVERSIMPLE_VERBOSE \in {<<"true">>, <<"TRUE">>, <<"1">>, <<"yes">>})
            ELSE Bool(FALSE)
    IN  /\ c.api_key = args.api_key
        /\ StripsTo(endpoint.s, c.api_endpoint.s)
        /\ c.timeout = timeout
        /\ c.verbose = verbose

\* C8 as claimed: a client uses, for each setting, the constructor argument
\* when one was passed, whatever its value; else the value set through
\* Config.update; else the value from the environment; else the literal.
C8_PassedArgumentAlwaysWins ==
    [][(ctor' # ctor \/ client' # client) => UsesPrecedence(client', ctor', TRUE)]_vars

\* C8, amended: a client uses, for each setting, the constructor argument when
\* one was passed (for the endpoint: passed and not the empty string, which is
\* treated as not passed); else the value set through Config.update; else the
\* value from the environment; else the literal.  The API key is always the
\* constructor's argument.
C8_PassedNonEmptyArgumentWins ==
    [][(ctor' # ctor \/ client' # client) => UsesPrecedence(client', ctor', FALSE)]_vars

C8_Witness ==
    /\ client.constructed
    /\ ctor.kw = [timeout |-> Num(0)]
    /\ client.timeout = Num(0)
    /\ "API_ENDPOINT" \in DOMAIN overrides
    /\ "CONVERSIMPLE_API_ENDPOINT" \in DOMAIN env
    /\ client.api_endpoint = Str(<<"https:", "/", "/", "set.example">>)
    /\ "VERBOSE" \notin DOMAIN overrides
    /\ "CONVERSIMPLE_VERBOSE" \in DOMAIN env
    /\ client.verbose = Bool(TRUE)

\* the api_endpoint of a client constructed like the present one, but from
\* endpoint u
EndpointFrom(u) ==
    HTTPClientInit(ctor.api_key, [ctor.kw EXCEPT !["api_endpoint"] = Str(u)], Config).api_endpoint

\* every request of the last call went to the client's endpoint followed by
\* the path, with no two slashes where they meet
UrlIsEndpointThenPath ==
    (call.op \in TransportOps /\ Len(call.sent) = 1)
    => LET base == client.api_endpoint.s
           url == call.sent[1].url.s
       IN  /\ url = base \o call.args.path
           /\ base # <<>> => ~(url[Len(base)] = "/" /\ url[Len(base) + 1] = "/")

\* C9 as claimed: for every endpoint u, a client built from u followed by a
\* slash has the api_endpoint of the client built from u; normalizing the
\* normalized endpoint changes nothing; every request URL is the normalized
\* endpoint followed by the path.
C9_NormalizationForEveryEndpoint ==
    /\ "api_endpoint" \in DOMAIN ctor.kw
       => /\ EndpointFrom(ctor.kw.api_endpoint.s \o <<"/">>) = client.api_endpoint
          /\ EndpointFrom(client.api_endpoint.s) = client.api_endpoint
    /\ UrlIsEndpointThenPath

\* C9, amended: for every non-empty endpoint u, a client built from u followed
\* by a slash has the api_endpoint of the client built from u; normalizing a
\* non-empty normalized endpoint changes nothing; every request URL is the
\* normalized endpoint followed by the path.  (The empty endpoint, which u is
\* or which slashes alone normalize to, is replaced by Config.API_ENDPOINT.)
C9_NormalizationForNonEmptyEndpoint ==
    /\ ("api_endpoint" \in DOMAIN ctor.kw /\ ctor.kw.api_endpoint # Str(<<>>))
       => EndpointFrom(ctor.kw.api_endpoint.s \o <<"/">>) = client.api_endpoint
    /\ ("api_endpoint" \in DOMAIN ctor.kw /\ client.api_endpoint # Str(<<>>))
       => EndpointFrom(client.api_endpoint.s) = client.api_endpoint
    /\ UrlIsEndpointThenPath

C9_Witness ==
    /\ "api_endpoint" \in DOMAIN ctor.kw
    /\ ctor.kw.api_endpoint = Str(DevEndpoint \o <<"/", "/">>)
    /\ client.api_endpoint = Str(DevEndpoint)
    /\ call.op = "get"
    /\ Len(call.sent) = 1
    /\ call.sent[1].url = Str(DevEndpoint \o AgentsPath)

----------------------------------------------------------------------------
(* Properties of deletion, under SpecEndpoints *)

DeleteOps == {"delete_agent", "delete_deployment"}

\* C11: a delete operation returns None and raises nothing whenever the
\* response status is below 400, whatever the body (the empty body of a 204
\* included); it raises only when the status is 400 or more.
C11_DeleteSucceedsBelow400 ==
    (call.op \in DeleteOps /\ Len(call.got) = 1)
    => /\ call.got[1].status_code < 400 => call.outcome = Return(None)
       /\ call.outcome.kind = "raise" => call.got[1].status_code >= 400

----------------------------------------------------------------------------
(* Properties of error propagation, under SpecEndpoints *)

EndpointOps ==
    { "list_agents", "create_agent", "get_agent", "update_agent", "delete_agent",
      "get_agent_spec", "get_agent_generation_status", "publish_agent",
      "list_deployments", "create_deployment", "get_deployment",
      "update_deployment", "delete_deployment", "activate_deployment",
      "deactivate_deployment", "get_api_key_info", "rotate_api_key",
      "get_api_key_usage" }

\* the last call was an endpoint operation whose request got an error response
ErrorAnswered ==
    call.op \in EndpointOps /\ Len(call.got) = 1 /\ call.got[1].status_code >= 400

\* C12: an endpoint operation sends one request at most and gets one response
\* at most; when the response is an error response the operation raises to
\* its caller the very exception the transport client raised for it: for a
\* body that is a JSON object, the status code's kind with the body's message,
\* the status code and the body as payload.
C12_OneRequestAndErrorsUnchanged ==
    call.op \in EndpointOps
    => /\ Len(call.sent) <= 1
       /\ Len(call.got) = Len(call.sent)
       /\ ErrorAnswered
          => /\ call.outcome = Raise(HandleError(call.got[1]))
             /\ (call.got[1].body.json /\ call.got[1].body.value.t = "dict")
                => LET body == call.got[1].body.value
                       exc == call.outcome.exc
                   IN  /\ exc.class = KindOf(call.got[1].status_code)
                       /\ exc.status_code = call.got[1].status_code
                       /\ "message" \in DOMAIN body.d => exc.message = body.d.message
                       /\ exc.response_data = body

C12_Witness ==
    /\ call.op = "get_agent"
    /\ Len(call.sent) = 1
    /\ call.got[1].status_code = 404
    /\ call.outcome.kind = "raise"
    /\ call.outcome.exc.class = "NotFoundError"
    /\ call.outcome.exc.message = Str(<<"Agent not found">>)
    /\ call.outcome.exc.status_code = 404
    /\ call.outcome.exc.response_data = Dict([message |-> Str(<<"Agent not found">>)])

----------------------------------------------------------------------------
(* Properties of the exceptions, under SpecTransport *)

\* the last call was a transport method that raised a ValidationError
RaisedValidationError ==
    /\ TransportAnswered
    /\ call.outcome.kind = "raise"
    /\ call.outcome.exc.class = "ValidationError"

\* C13: a ValidationError raised for a 422 response holds as errors the
\* errors object of the response body, and the empty mapping when the body
\* has no errors key or is no JSON at all.
C13_ErrorsIsBodyErrors ==
    RaisedValidationError
    => LET body == call.got[1].body
       IN  /\ call.got[1].status_code = 422
           /\ call.outcome.exc.errors =
                IF body.json /\ "errors" \in DOMAIN body.value.d
                THEN body.value.d.errors
                ELSE Dict(EmptyMap)

C13_Witness ==
    /\ RaisedValidationError
    /\ call.op = "post"
    /\ call.got[1].body = JsonBody(Dict([ message |-> Str(<<"Validation failed">>),
                                          errors |-> Dict([name |-> Str(<<"Name is required">>)]) ]))
    /\ call.outcome.exc.errors = Dict([name |-> Str(<<"Name is required">>)])

----------------------------------------------------------------------------
(* Properties of the transition operations, under SpecEndpoints *)

TransitionOps == {"publish_agent", "activate_deployment", "deactivate_deployment"}

\* the model class a transition operation returns
TransitionClass(op) == IF op = "publish_agent" THEN "Agent" ELSE "Deployment"

\* C14: a transition operation sends one POST whose body is the empty JSON
\* object, whatever its argument; when it returns, it returns the model parsed
\* from the data of the response envelope, whose status is the status the
\* server reported there.
C14_TransitionPostsEmptyObject ==
    call.op \in TransitionOps
    => /\ Len(call.sent) = 1
       /\ call.sent[1].method = "POST"
       /\ call.sent[1].what = "body"
       /\ call.sent[1].payload = Dict(EmptyMap)
       /\ call.outcome.kind = "return"
          => LET data == call.got[1].body.value.d.data
                 entity == call.outcome.value
             IN  /\ entity.t = "model"
                 /\ entity.cls = TransitionClass(call.op)
                 /\ entity.fields.status = data.d.status
                 /\ entity.fields.id = data.d.id
                 /\ entity.fields.name = data.d.name

C14_Witness ==
    /\ call.op = "activate_deployment"
    /\ call.args.id = Str(<<"dep-2">>)
    /\ call.sent[1].payload = Dict(EmptyMap)
    /\ call.outcome.kind = "return"
    /\ call.outcome.value.cls = "Deployment"
    /\ call.outcome.value.fields.status = Str(<<"active">>)

----------------------------------------------------------------------------
(* Properties of the request headers, under SpecTransport *)

\* C15: every request a transport method sends carries Authorization, which
\* is "Bearer " followed by the API key the client was constructed with,
\* Content-Type, which is application/json, and the User-Agent of the SDK;
\* and every call of a transport method sends its request.
C15_RequestsCarryTheThreeHeaders ==
    call.op \in TransportOps
    => /\ Len(call.sent) = 1
       /\ \A i \in DOMAIN call.sent :
            LET headers == call.sent[i].headers
            IN  /\ {"Authorization", "ContentType", "UserAgent"} \subseteq DOMAIN headers
                /\ headers.Authorization = Str(<<"Bearer ">> \o ctor.api_key.s)
                /\ headers.ContentType = Str(<<"application/json">>)
                /\ headers.UserAgent = Str(<<"conversimple-sdk/0.3.0">>)

C15_Witness ==
    /\ call.op = "delete"
    /\ ctor.api_key = Str(<<"key-2">>)
    /\ Len(call.sent) = 1
    /\ call.sent[1].method = "DELETE"
    /\ call.sent[1].headers.Authorization = Str(<<"Bearer ", "key-2">>)

----------------------------------------------------------------------------
(* Properties of the log, under SpecTransport *)

\* rec is the debug record of request req: its method, its URL and its params
\* or body
IsRequestRecord(rec, req) ==
    /\ rec.level = "DEBUG"
    /\ rec.method = req.method
    /\ rec.url = req.url
    /\ rec.what = req.what
    /\ rec.payload = req.payload

\* C16 as claimed: on a verbose client every call of a transport method logs
\* a debug record for the request and another one for the response.
C16_VerboseLogsRequestAndResponse ==
    (call.op \in TransportOps /\ client.verbose = Bool(TRUE))
    => \E i, j \in DOMAIN call.log :
          /\ i # j
          /\ IsRequestRecord(call.log[i], call.sent[1])
          /\ call.log[j].level = "DEBUG"

\* C16, amended: on a verbose client every call of a transport method logs
\* one debug record, for the request (method, URL and params or body), and
\* none for the response; on a client that is not verbose it logs nothing.
C16_VerboseLogsRequestOnly ==
    call.op \in TransportOps
    => IF client.verbose = Bool(TRUE)
       THEN Len(call.log) = 1 /\ IsRequestRecord(call.log[1], call.sent[1])
       ELSE call.log = << >>

C16_Witness ==
    /\ call.op = "put"
    /\ client.verbose = Bool(TRUE)
    /\ Len(call.got) = 1
    /\ call.log = << [ level |-> "DEBUG", method |-> "PUT",
                       url |-> Str(client.api_endpoint.s \o AgentsPath),
                       what |-> "body", payload |-> Dict([name |-> Str(<<"Bot">>)]) ] >>

\* the tokens of a string value
Tokens(v) == IF v.t = "str" THEN { v.s[i] : i \in DOMAIN v.s } ELSE {}

\* the log the last call would have written on a client constructed the same
\* way but with API key k
LogUnderKey(k) ==
    Send(HTTPClientInit(k, ctor.kw, Config), call.sent[1].method, call.args.path,
         call.sent[1].what, call.args.payload, call.got[1]).log

\* C17: no record a transport method logs holds the headers, the
\* Authorization value or the API key, and the log of a call is the same
\* whatever the API key of the client.
C17_LogIndependentOfApiKey ==
    call.op \in TransportOps
    => /\ \A k \in ApiKeys : LogUnderKey(k) = call.log
       /\ \A i \in DOMAIN call.log :
            /\ DOMAIN call.log[i] = {"level", "method", "url", "what", "payload"}
            /\ Tokens(client.api_key) \cap Tokens(call.log[i].url) = {}
            /\ call.log[i].payload # client.api_key
            /\ call.log[i].payload # call.sent[1].headers.Authorization

C17_Witness ==
    /\ call.op = "post"
    /\ client.api_key = Str(<<"key-2">>)
    /\ client.verbose = Bool(TRUE)
    /\ call.sent[1].headers.Authorization = Str(<<"Bearer ", "key-2">>)
    /\ Len(call.log) = 1
    /\ LogUnderKey(Str(<<"key-1">>)) = call.log

----------------------------------------------------------------------------
(* Properties of the model instances, under SpecModels *)

\* C18: a model instance the caller keeps never changes: no assignment
\* changes a field of it, and no later operation changes it; it is only ever
\* replaced, when the caller keeps the instance a later call returned.
C18_ModelsAreImmutable ==
    [][(held # None /\ call' = call) => held' = held]_vars

\* the part of C18 that holds: invoking an operation leaves the instance the
\* caller keeps as it is
OperationsLeaveHeldAlone ==
    [][(call = NoCall /\ call' # NoCall) => held' = held]_vars

\* a kept Agent whose name the caller has overwritten
AssignedAgent ==
    /\ held # None
    /\ held.cls = "Agent"
    /\ held.fields.id = Str(<<"agent-1">>)
    /\ held.fields.name = Str(<<"changed">>)

----------------------------------------------------------------------------
(* The REST surface, under SpecEndpoints *)

\* the HTTP method the REST surface gives an operation
RouteMethod(op) ==
    CASE op \in { "list_agents", "get_agent", "get_agent_spec",
                  "get_agent_generation_status", "list_deployments",
                  "get_deployment", "get_api_key_info", "get_api_key_usage" } -> "GET"
      [] op \in { "create_agent", "publish_agent", "create_deployment",
                  "activate_deployment", "deactivate_deployment",
                  "rotate_api_key" } -> "POST"
      [] op \in { "update_agent", "update_deployment" } -> "PUT"
      [] op \in { "delete_agent", "delete_deployment" } -> "DELETE"

\* the path the REST surface gives an operation called with args
RoutePath(op, args) ==
    LET agents == <<"/", "api", "/", "v1", "/", "agents">>
        deployments == <<"/", "api", "/", "v1", "/", "deployments">>
        key == <<"/", "api", "/", "v1", "/", "settings", "/", "api-key">>
    IN  CASE op \in {"list_agents", "create_agent"} -> agents
          [] op \in {"get_agent", "update_agent", "delete_agent"} ->
                agents \o <<"/">> \o args.id.s
          [] op = "get_agent_spec" -> agents \o <<"/">> \o args.id.s \o <<"/", "spec">>
          [] op = "get_agent_generation_status" ->
                agents \o <<"/">> \o args.id.s \o <<"/", "generation-status">>
          [] op = "publish_agent" -> agents \o <<"/">> \o args.id.s \o <<"/", "publish">>
          [] op \in {"list_deployments", "create_deployment"} -> deployments
          [] op \in {"get_deployment", "update_deployment", "delete_deployment"} ->
                deployments \o <<"/">> \o args.id.s
          [] op = "activate_deployment" ->
                deployments \o <<"/">> \o args.id.s \o <<"/", "activate">>
          [] op = "deactivate_deployment" ->
                deployments \o <<"/">> \o args.id.s \o <<"/", "deactivate">>
          [] op = "get_api_key_info" -> key
          [] op = "rotate_api_key" -> key \o <<"/", "rotate">>
          [] op = "get_api_key_usage" -> key \o <<"/", "usage">>

\* C19: the request an endpoint operation sends has the method and the path
\* the REST surface gives the operation, with the id it was called with in
\* the path.
C19_OperationsFollowRestSurface ==
    (call.op \in EndpointOps /\ Len(call.sent) = 1)
    => /\ call.sent[1].method = RouteMethod(call.op)
       /\ call.sent[1].url = Str(client.api_endpoint.s \o RoutePath(call.op, call.args))

C19_Witness ==
    /\ call.op = "deactivate_deployment"
    /\ call.args.id = Str(<<"dep-2">>)
    /\ call.sent[1].method = "POST"
    /\ call.sent[1].url =
         Str(<<"https:", "/", "/", "api.conversimple.com", "/", "api", "/", "v1", "/",
               "deployments", "/", "dep-2", "/", "deactivate">>)

----------------------------------------------------------------------------
(* Properties of parsing, under SpecEndpoints *)

\* the operations that return one model, and the last call returned from one
SingleModelOps ==
    { "create_agent", "get_agent", "update_agent", "publish_agent",
      "create_deployment", "get_deployment", "update_deployment",
      "activate_deployment", "deactivate_deployment",
      "get_api_key_info", "get_api_key_usage" }

ModelReturned == call.op \in SingleModelOps /\ call.outcome.kind = "return"

\* the data of the envelope the last call was answered with
WireData == call.got[1].body.value.d.data

\* the key a model's field is read from on the wire
WireNameOf(cls, name) ==
    IF cls = "ApiKeyInfo" /\ name = "last_4_chars" THEN "last_4" ELSE name

\* field value v is wire value w: the same value, or the timestamp the wire
\* string denotes
SameValue(v, w) == v = w \/ (v.t = "datetime" /\ w.t = "str" /\ v.iso = w.s)

\* every key of the wire data is readable on the entity, with the wire's value
EveryWireKeyReadable(entity, data) ==
    \A w \in DOMAIN data.d :
        \E n \in DOMAIN entity.fields :
            WireNameOf(entity.cls, n) = w /\ SameValue(entity.fields[n], data.d[w])

\* every field of the entity holds the wire's value under the field's wire
\* name, or None when the wire data has no such key
EveryFieldFromWire(entity, data) ==
    \A n \in DOMAIN entity.fields :
        LET w == WireNameOf(entity.cls, n)
        IN  IF w \in DOMAIN data.d
            THEN SameValue(entity.fields[n], data.d[w])
            ELSE entity.fields[n] = None

----------------------------------------------------------------------------
(* Properties of a client's settings over its life, under SpecConfig *)

\* the requests the client sends, and what it logs, for a GET of each path
RequestsOfClient ==
    IF client.constructed
    THEN [ path \in TransportPaths |->
             LET r == get(client, path, None, [status_code |-> 200, body |-> TextBody(<<>>)])
             IN  <<r.sent, r.log>> ]
    ELSE << >>

\* C21: a Config.update leaves an existing client's api_endpoint, timeout and
\* verbose as they are, and with them the URL and the timeout of the requests
\* the client sends; a client constructed without arguments after an update
\* uses the values the update set.
C21_SettingsFixedAtConstruction ==
    [][ /\ (Config' # Config \/ overrides' # overrides)
           => /\ client' = client
              /\ RequestsOfClient' = RequestsOfClient
        /\ ((ctor' # ctor \/ client' # client) /\ ctor'.kw = EmptyMap)
           => /\ "API_TIMEOUT" \in DOMAIN overrides
                 => client'.timeout = overrides.API_TIMEOUT
              /\ "VERBOSE" \in DOMAIN overrides
                 => client'.verbose = overrides.VERBOSE
              /\ "API_ENDPOINT" \in DOMAIN overrides
                 => StripsTo(overrides.API_ENDPOINT.s, client'.api_endpoint.s) ]_vars

\* a client constructed without arguments that still has the defaults, though
\* Config.update has since set another endpoint and another timeout
C21_Witness ==
    /\ client.constructed
    /\ ctor.kw = EmptyMap
    /\ env = EmptyMap
    /\ "API_TIMEOUT" \in DOMAIN overrides
    /\ "API_ENDPOINT" \in DOMAIN overrides
    /\ Config.API_TIMEOUT = Num(7)
    /\ client.timeout = Num(30)
    /\ client.api_endpoint = Str(<<"https:", "/", "/", "api.conversimple.com">>)
    /\ RequestsOfClient[AgentsPath][1][1].url =
         Str(<<"https:", "/", "/", "api.conversimple.com">> \o AgentsPath)

----------------------------------------------------------------------------
(* Properties of key rotation, under SpecRotation *)

\* C22: a rotation leaves the client's API key as it is: the client keeps the
\* key it was constructed with, and every request it sends, those after a
\* rotation has returned a new key included, carries the bearer token of the
\* key given at construction and not that of the new key.
C22_RotationLeavesClientKey ==
    /\ client.api_key = ctor.api_key
    /\ (call.op \in EndpointOps /\ Len(call.sent) = 1)
       => /\ call.sent[1].headers.Authorization = Str(<<"Bearer ">> \o ctor.api_key.s)
          /\ held # None
             => call.sent[1].headers.Authorization # Str(<<"Bearer ">> \o held.s)

C22_Witness ==
    /\ held = Str(<<"key-2">>)
    /\ call.op = "get_api_key_usage"
    /\ Len(call.sent) = 1
    /\ call.sent[1].headers.Authorization = Str(<<"Bearer ", "key-1">>)

----------------------------------------------------------------------------
(* Properties of Config.update, under SpecConfig *)

\* the settings among the attributes of Config
Settings == {"API_ENDPOINT", "API_KEY", "LOG_LEVEL", "API_TIMEOUT", "VERBOSE"}

\* C23 as claimed: a Config.update changes settings only, and only those its
\* arguments name, to the values given; it creates no attribute; whatever it
\* does not name keeps its value.
C23_UpdateChangesNamedSettingsOnly ==
    [][ /\ DOMAIN Config' = DOMAIN Config
        /\ \A a \in DOMAIN Config :
              Config'[a] # Config[a]
              => /\ a \in Settings
                 /\ a \in DOMAIN overrides'
                 /\ Config'[a] = overrides'[a] ]_vars

\* C23, amended: a Config.update changes only attributes Config already has
\* and its arguments name, to the values given; these are the settings and
\* also the class's methods.  A key that is no attribute is ignored and
\* creates none; whatever is not named keeps its value.
C23_UpdateChangesNamedAttributesOnly ==
    [][ /\ DOMAIN Config' = DOMAIN Config
        /\ \A a \in DOMAIN Config :
              Config'[a] # Config[a]
              => /\ a \in DOMAIN overrides'
                 /\ Config'[a] = overrides'[a]
        /\ \A a \in DOMAIN overrides' \cap DOMAIN Config' :
              Config'[a] = overrides'[a] ]_vars

C23_Witness ==
    /\ env = EmptyMap
    /\ "RETRY_LIMIT" \in DOMAIN overrides
    /\ "RETRY_LIMIT" \notin DOMAIN Config
    /\ Config.API_TIMEOUT = Num(7)
    /\ "VERBOSE" \notin DOMAIN overrides
    /\ Config.VERBOSE = Bool(FALSE)
    /\ Config.API_ENDPOINT = Str(<<"https:", "/", "/", "api.conversimple.com">>)
    /\ Config.get_api_endpoint = None

====
